---- MODULE Spec2Model ----
(***************************************************************************)
(* ProductImage (react/components/ProductSummaryImage/ProductImage.js):    *)
(* the render functions maybeBadge, maybeCollection, findImageByLabel,     *)
(* Image, ProductImageContent and ProductImage as operators over           *)
(* JavaScript values, and one mounted ProductImage instance as a state     *)
(* machine: its props, the ambient product / device / selected variation,  *)
(* its `error` state cell, the element tree of its last render and the     *)
(* error events the browser has queued for the <img> elements. imageCall   *)
(* holds one application of the Image renderer on its own.                 *)
(***************************************************************************)
EXTENDS Integers, Sequences, FiniteSets, TLC

VARIABLES props, product, isMobile, selectedImageVariationSKU, error, rendered, queued,
          imageCall

vars == <<props, product, isMobile, selectedImageVariationSKU, error, rendered, queued,
          imageCall>>

(***************************************************************************)
(* Bounds of the model.                                                    *)
(***************************************************************************)
MaxDim == 2
MaxImages == 2
MaxClusters == 2

(***************************************************************************)
(* JavaScript values. Every value that the code tests for truthiness or    *)
(* reads a property of is a tagged record; booleans and the label strings  *)
(* ('' is the only falsy string) are TLA+ booleans and strings.            *)
(***************************************************************************)
Undefined == [t |-> "undefined"]
Null == [t |-> "null"]
EmptyObject == [t |-> "object"]
Num(n) == [t |-> "number", v |-> n]
Str(s) == [t |-> "string", v |-> s]
Arr(s) == [t |-> "array", v |-> s]

Truthy(x) ==
  CASE x.t = "undefined" -> FALSE
    [] x.t = "null" -> FALSE
    [] x.t = "number" -> x.v # 0
    [] x.t = "string" -> x.v # ""
    [] OTHER -> TRUE

\* a || b
Or(a, b) == IF Truthy(a) THEN a ELSE b

\* obj.f, for an obj that is an object; undefined when the field is not there
Prop(obj, f) == IF f \in DOMAIN obj THEN obj[f] ELSE Undefined

\* ramda pathOr(d, path, obj): the value at the path, d when it is null or undefined
RECURSIVE Path(_, _)
Path(path, obj) ==
  IF path = <<>> THEN obj
  ELSE IF obj.t # "object" THEN Undefined
  ELSE Path(Tail(path), Prop(obj, Head(path)))

pathOr(d, path, obj) ==
  LET val == Path(path, obj) IN IF val \in {Undefined, Null} THEN d ELSE val

\* parseFloat of a number is that number
parseFloat(x) == IF x.t = "number" THEN x ELSE [t |-> "NaN"]

\* classNames(...): the set of class tokens of its truthy arguments
classNames(tokens) == UNION tokens

\* utils/normalize changeImageUrlSize: the request for src at width x height
changeImageUrlSize(src, width, height) ==
  [t |-> "resized", src |-> src, width |-> width, height |-> height]

\* onError={() => setError(true)}
SetErrorTrue == [t |-> "function", body |-> "setError(true)"]

(***************************************************************************)
(* The render functions.                                                   *)
(***************************************************************************)
\* a decorator that judges for itself whether there is a discount
maybeBadge_OnlyDiscount(listPrice, price, label, shouldShow, component) ==
  IF shouldShow /\ Truthy(listPrice) /\ Truthy(price) /\ listPrice.v > price.v
  THEN [tag |-> "DiscountBadge", listPrice |-> listPrice, sellingPrice |-> price,
        label |-> label, children |-> <<component>>]
  ELSE component

maybeBadge(listPrice, price, label, shouldShow, component) ==
  IF shouldShow
  THEN [tag |-> "DiscountBadge", listPrice |-> listPrice, sellingPrice |-> price,
        label |-> label, children |-> <<component>>]
  ELSE component

maybeCollection(productClusters, shouldShow, component) ==
  IF shouldShow /\ Truthy(productClusters) /\ Len(productClusters.v) > 0
  THEN [tag |-> "CollectionBadges",
        collectionBadgesText |->
          [i \in 1..Len(productClusters.v) |-> productClusters.v[i].name],
        children |-> <<component>>]
  ELSE component

\* a lookup that only looks at the first image
findImageByLabel_FirstOnly(images, selectedLabel) ==
  IF selectedLabel = "" THEN Null
  ELSE IF images # <<>> /\ images[1].imageLabel = selectedLabel THEN images[1]
  ELSE Undefined

findImageByLabel(images, selectedLabel) ==
  IF selectedLabel = "" THEN Null
  ELSE LET hits == {i \in 1..Len(images) : images[i].imageLabel = selectedLabel}
       IN IF hits = {} THEN Undefined
          ELSE images[CHOOSE i \in hits : \A j \in hits : i <= j]

\* the <img> element, with the resize decision as a parameter
ImageWith(src, width, height, onError, alt, className, mobile, shouldResize) ==
  LET dpi == IF mobile THEN 2 ELSE 1
  IN [tag |-> "img",
      src |-> IF shouldResize
              THEN changeImageUrlSize(src, Num(width.v * dpi), Num(height.v * dpi))
              ELSE src,
      style |-> IF shouldResize
                THEN [t |-> "object", width |-> "100%", height |-> height,
                      objectFit |-> "contain", maxHeight |-> "unset",
                      maxWidth |-> width]
                ELSE Null,
      loading |-> IF shouldResize THEN "lazy" ELSE "auto",
      alt |-> alt,
      className |-> className,
      onError |-> onError]

\* an Image that resizes only when both dimensions are given
Image_ResizeNeedsBoth(src, width, height, onError, alt, className, mobile) ==
  ImageWith(src, width, height, onError, alt, className, mobile,
            Truthy(width) /\ Truthy(height))

\* an Image that does not hand onError to its <img>
Image_NoOnError(src, width, height, onError, alt, className, mobile) ==
  ImageWith(src, width, height, Undefined, alt, className, mobile,
            Truthy(Or(width, height)))

Image(src, width, height, onError, alt, className, mobile) ==
  LET dpi == IF mobile THEN 2 ELSE 1
      shouldResize == Truthy(Or(width, height))
  IN [tag |-> "img",
      src |-> IF shouldResize
              THEN changeImageUrlSize(src, Num(width.v * dpi), Num(height.v * dpi))
              ELSE src,
      style |-> IF shouldResize
                THEN [t |-> "object", width |-> "100%", height |-> height,
                      objectFit |-> "contain", maxHeight |-> "unset",
                      maxWidth |-> width]
                ELSE Null,
      loading |-> IF shouldResize THEN "lazy" ELSE "auto",
      alt |-> alt,
      className |-> className,
      onError |-> onError]

\* a size resolution without the fallback to the other dimension
ResolveSize_NoFallback(widthProp, heightProp) ==
  <<parseFloat(Or(widthProp, Num(0))), parseFloat(Or(heightProp, Num(0)))>>

\* [width, height] of ProductImageContent
ResolveSize(widthProp, heightProp) ==
  <<parseFloat(Or(Or(widthProp, heightProp), Num(0))),
    parseFloat(Or(Or(heightProp, widthProp), Num(0)))>>

\* the primary image's url
ResolveImageUrl(sku, images, mainImageLabel, selVar) ==
  LET imageUrl == pathOr(EmptyObject, <<"image", "imageUrl">>, sku)
      mainImage == findImageByLabel(images, mainImageLabel)
  IN IF selVar \in {Null, Undefined} /\ mainImageLabel # "" /\ Truthy(mainImage)
     THEN Prop(mainImage, "imageUrl")
     ELSE imageUrl

\* a guard that forgets the missing sku
ShowsPlaceholder_OnErrorOnly(sku, hasError) == hasError

\* if (!sku || hasError): the placeholder is rendered and nothing else
ShowsPlaceholder(sku, hasError) == ~Truthy(sku) \/ hasError

\* the two decorators composed the other way round
ComposeBadges_CollectionOutside(listPrice, price, label, badge, clusters, collections, img) ==
  maybeCollection(clusters, collections, maybeBadge(listPrice, price, label, badge, img))

\* compose(withBadge(showBadge), withCollection(showCollections))(img)
ComposeBadges(listPrice, price, label, badge, clusters, collections, img) ==
  maybeBadge(listPrice, price, label, badge, maybeCollection(clusters, collections, img))

ProductImageContent(p, prod, onError, hasError, mobile, selVar) ==
  LET productClusters == Prop(Or(prod, EmptyObject), "productClusters")
      name == Prop(Or(prod, EmptyObject), "productName")
      sku == IF Truthy(prod) THEN Prop(prod, "sku") ELSE prod
      size == ResolveSize(p.width, p.height)
      width == size[1]
      height == size[2]
      legacyContainerClasses == classNames({{"imageStackContainer"}, {"hoverEffect"}})
      containerClassname ==
        classNames({{"dib", "relative"}, {"imageContainer"}, legacyContainerClasses})
  IN IF ShowsPlaceholder(sku, hasError)
     THEN [tag |-> "div", className |-> containerClassname,
           children |-> <<[tag |-> "ImagePlaceholder", cssHandle |-> Undefined]>>]
     ELSE
       LET images == pathOr(Arr(<<>>), <<"images">>, sku).v
           hoverImage == findImageByLabel(images, p.hoverImageLabel)
           imageUrl == ResolveImageUrl(sku, images, p.mainImageLabel, selVar)
           legacyImageClasses ==
             classNames({IF p.displayMode # "inline" THEN {"imageNormal"} ELSE {},
                         IF p.displayMode = "inline" THEN {"imageInline"} ELSE {}})
           commertialOffer ==
             pathOr(EmptyObject, <<"sku", "seller", "commertialOffer">>, prod)
           imageClassname == classNames({legacyImageClasses, {"image"}})
           hoverImageClassname ==
             classNames({{"w-100", "h-100", "dn", "absolute", "top-0", "left-0", "z-999"},
                         {"image--hover"}, legacyImageClasses, {"hoverImage"}})
           primary == Image(imageUrl, width, height, onError, name, imageClassname, mobile)
           img == [tag |-> "div", className |-> containerClassname,
                   children |->
                     IF Truthy(hoverImage) /\ ~mobile
                     THEN <<primary,
                            Image(Prop(hoverImage, "imageUrl"), width, height, onError,
                                  name, hoverImageClassname, mobile)>>
                     ELSE <<primary>>]
       IN ComposeBadges(Prop(commertialOffer, "ListPrice"), Prop(commertialOffer, "Price"),
                        p.badgeText, p.showBadge, productClusters, p.showCollections, img)

\* an outer container that is full-width in every display mode
OuterClassName_Always(displayMode) ==
  classNames({{"imageContainer"}, {"db", "w-100", "center"}})

\* the classes of the outer container
OuterClassName(displayMode) ==
  classNames({{"imageContainer"},
              IF displayMode # "inline" THEN {"db", "w-100", "center"} ELSE {}})

ProductImage(p, prod, hasError, mobile, selVar) ==
  [tag |-> "div", className |-> OuterClassName(p.displayMode),
   children |-> <<ProductImageContent(p, prod, SetErrorTrue, hasError, mobile, selVar)>>]

\* useState(false)
InitialError == FALSE

\* a callback that flips the cell: setError(!error)
Invoke_Toggles(callback, cell) == IF callback = SetErrorTrue THEN ~cell ELSE cell

\* what calling an onError prop does to the `error` cell
Invoke(callback, cell) == IF callback = SetErrorTrue THEN TRUE ELSE cell

defaultProps ==
  [showBadge |-> TRUE, badgeText |-> Undefined, showCollections |-> FALSE,
   displayMode |-> "normal", mainImageLabel |-> "", hoverImageLabel |-> "",
   width |-> Undefined, height |-> Undefined]

(***************************************************************************)
(* The element tree.                                                       *)
(***************************************************************************)
RECURSIVE Imgs(_)
RECURSIVE ImgsOf(_)
ImgsOf(nodes) == IF nodes = <<>> THEN <<>> ELSE Imgs(Head(nodes)) \o ImgsOf(Tail(nodes))
\* the <img> elements of a tree, in document order
Imgs(node) ==
  IF node.tag = "img" THEN <<node>>
  ELSE IF "children" \in DOMAIN node THEN ImgsOf(node.children)
  ELSE <<>>

\* the output of ProductImageContent inside the outer container
Content == rendered.children[1]

IsPlaceholderOnly(node) ==
  /\ node.tag = "div"
  /\ Len(node.children) = 1
  /\ node.children[1].tag = "ImagePlaceholder"

(***************************************************************************)
(* The values the environment supplies.                                    *)
(***************************************************************************)
ImageLabels == {"front", "back"}
Labels == {""} \cup ImageLabels
ImageUrls == <<"img1.jpg", "img2.jpg", "img3.jpg", "img4.jpg">>
ClusterNames == <<"summer", "outlet", "new", "kids">>

\* width / height as useResponsiveValues returns them
Dims == {Undefined} \cup {Num(n) : n \in 0..MaxDim} \cup {Num(100)}

\* sku.images: the i-th image has the i-th url
ImagesOf(labels) ==
  Arr([i \in 1..Len(labels) |->
         [t |-> "object", imageLabel |-> labels[i], imageUrl |-> Str(ImageUrls[i])]])
ImageLists ==
  {Undefined} \cup
  {ImagesOf(l) : l \in UNION {[1..n -> ImageLabels] : n \in 0..MaxImages}}

MainImage == [t |-> "object", imageUrl |-> Str("main.jpg")]
MainImages == {Undefined, EmptyObject, MainImage}

Offer(listPrice, price) == [t |-> "object", ListPrice |-> Num(listPrice), Price |-> Num(price)]
Offers == {Undefined, EmptyObject, Offer(10, 10), Offer(10, 8)}

ClustersOf(n) == Arr([i \in 1..n |-> [t |-> "object", name |-> ClusterNames[i]]])
ClusterLists == {Undefined} \cup {ClustersOf(n) : n \in 0..MaxClusters}

Sku(images, image, offer) ==
  [t |-> "object", images |-> images, image |-> image,
   seller |-> [t |-> "object", commertialOffer |-> offer]]

Product(clusters, sku) ==
  [t |-> "object", productName |-> Str("Shirt"), productClusters |-> clusters, sku |-> sku]

FullSku == Sku(ImagesOf(<<"front", "back">>), MainImage, Offer(10, 8))

\* no product, products without a sku, and products with one
SampleProducts ==
  {Undefined,
   Product(ClustersOf(1), Undefined),
   Product(ClustersOf(1), Null),
   Product(ClustersOf(1), FullSku),
   Product(Undefined, Sku(Undefined, MainImage, EmptyObject))}

ImageProducts ==
  {Product(ClustersOf(1), Sku(i, m, Offer(10, 8))) : i \in ImageLists, m \in MainImages}

BadgeProducts ==
  {Product(c, Sku(ImagesOf(<<"front", "back">>), MainImage, o)) :
     c \in ClusterLists, o \in Offers}
  \cup {Product(c, Undefined) : c \in ClusterLists}
  \cup {Product(ClustersOf(1), [t |-> "object", images |-> ImagesOf(<<"front">>),
                                image |-> MainImage])}

Variations == {Null, Undefined, Str("sku-2")}

(***************************************************************************)
(* The mounted instance.                                                   *)
(***************************************************************************)
NoCall == [src |-> Undefined]

Rerender == rendered' = ProductImage(props', product', error', isMobile', selectedImageVariationSKU')

InitWith(p, prod) ==
  /\ props = p
  /\ product = prod
  /\ isMobile = FALSE
  /\ selectedImageVariationSKU = Null
  /\ error = InitialError
  /\ queued = {}
  /\ rendered = ProductImage(p, prod, InitialError, FALSE, Null)
  /\ imageCall = NoCall

Init == InitWith(defaultProps, Product(ClustersOf(1), FullSku))

\* the parent renders the instance with another value of prop f
ReceiveProps(f, values) ==
  /\ \E v \in values : props' = [props EXCEPT ![f] = v]
  /\ UNCHANGED <<product, isMobile, selectedImageVariationSKU, error, queued, imageCall>>
  /\ Rerender

\* useProductSummary() returns another product
ProductChange(products) ==
  /\ \E prod \in products : product' = prod
  /\ UNCHANGED <<props, isMobile, selectedImageVariationSKU, error, queued, imageCall>>
  /\ Rerender

\* useDevice() returns another device
DeviceChange ==
  /\ isMobile' = ~isMobile
  /\ UNCHANGED <<props, product, selectedImageVariationSKU, error, queued, imageCall>>
  /\ Rerender

\* useProduct() returns another skuSelector.selectedImageVariationSKU
VariationChange ==
  /\ \E s \in Variations : selectedImageVariationSKU' = s
  /\ UNCHANGED <<props, product, isMobile, error, queued, imageCall>>
  /\ Rerender

\* the load of the i-th <img> of the last render fails: the browser queues
\* an error event for the element, to be handled by its onError
LoadFails ==
  /\ \E i \in 1..Len(Imgs(rendered)) :
       /\ \A e \in queued : e.slot # i
       /\ queued' = queued \cup {[slot |-> i, onError |-> Imgs(rendered)[i].onError]}
  /\ UNCHANGED <<props, product, isMobile, selectedImageVariationSKU, error, rendered, imageCall>>

\* a queued error event is dispatched: its onError runs and the instance renders again
HandleError ==
  /\ \E e \in queued :
       /\ error' = Invoke(e.onError, error)
       /\ queued' = queued \ {e}
  /\ UNCHANGED <<props, product, isMobile, selectedImageVariationSKU, imageCall>>
  /\ Rerender

\* <Image src width height ... /> rendered on its own, on either device
RenderImage ==
  /\ \E src \in {Str("main.jpg")} \cup {Str(ImageUrls[i]) : i \in 1..Len(ImageUrls)},
        mobile \in BOOLEAN,
        width, height \in Dims \ {Undefined} :
       imageCall' = [src |-> src, width |-> width, height |-> height, mobile |-> mobile,
                     out |-> Image(src, width, height, SetErrorTrue, Str("Shirt"),
                                   {"image"}, mobile)]
  /\ UNCHANGED <<props, product, isMobile, selectedImageVariationSKU, error, rendered, queued>>

\* the whole component, over a sample of every input
Next ==
  \/ ReceiveProps("showBadge", BOOLEAN)
  \/ ReceiveProps("showCollections", BOOLEAN)
  \/ ReceiveProps("badgeText", {Undefined, Str("SALE")})
  \/ ReceiveProps("displayMode", {"normal", "inline"})
  \/ ReceiveProps("mainImageLabel", {"", "back"})
  \/ ReceiveProps("hoverImageLabel", {"", "back"})
  \/ ReceiveProps("width", {Undefined, Num(100)})
  \/ ReceiveProps("height", {Undefined, Num(50)})
  \/ ProductChange(SampleProducts)
  \/ DeviceChange
  \/ LoadFails
  \/ HandleError

Spec == Init /\ [][Next]_vars

\* the size resolution and the Image renderer, over every width and height
NextSize ==
  \/ ReceiveProps("width", Dims)
  \/ ReceiveProps("height", Dims)
  \/ ReceiveProps("hoverImageLabel", {"", "back"})
  \/ DeviceChange
  \/ LoadFails
  \/ HandleError

SpecSize == Init /\ [][NextSize]_vars

\* the image selection, over every image list, label and variation
NextImages ==
  \/ ReceiveProps("mainImageLabel", Labels)
  \/ ReceiveProps("hoverImageLabel", Labels)
  \/ ProductChange(ImageProducts)
  \/ VariationChange
  \/ DeviceChange
  \/ LoadFails
  \/ HandleError

SpecImages == Init /\ [][NextImages]_vars

\* the badge decorators, over every flag, cluster list and offer
NextBadges ==
  \/ ReceiveProps("showBadge", BOOLEAN)
  \/ ReceiveProps("showCollections", BOOLEAN)
  \/ ReceiveProps("badgeText", {Undefined, Str(""), Str("SALE")})
  \/ ProductChange(BadgeProducts)
  \/ LoadFails
  \/ HandleError

SpecBadges == Init /\ [][NextBadges]_vars

\* the Image renderer alone, over every width, height and device
NextImage ==
  \/ RenderImage

SpecImage == Init /\ [][NextImage]_vars

(***************************************************************************)
(* What the properties read off a state.                                   *)
(***************************************************************************)
HasSku == Truthy(product) /\ Truthy(Prop(product, "sku"))
TheSku == Prop(product, "sku")
SkuImages ==
  LET i == Prop(TheSku, "images") IN IF i.t = "array" THEN i.v ELSE <<>>
Clusters ==
  LET c == IF Truthy(product) THEN Prop(product, "productClusters") ELSE Undefined
  IN IF c.t = "array" THEN c.v ELSE <<>>
TheOffer ==
  LET seller == Prop(TheSku, "seller")
      o == IF seller.t = "object" THEN Prop(seller, "commertialOffer") ELSE Undefined
  IN IF o.t = "object" THEN o ELSE EmptyObject
Matches(label) == {i \in 1..Len(SkuImages) : SkuImages[i].imageLabel = label}
FirstMatch(label) == SkuImages[CHOOSE i \in Matches(label) : \A j \in Matches(label) : i <= j]
NoVariation == selectedImageVariationSKU \in {Null, Undefined}

RECURSIVE Tags(_)
\* the tags of all elements of a tree
Tags(node) ==
  {node.tag} \cup
  (IF "children" \in DOMAIN node
   THEN UNION {Tags(node.children[i]) : i \in 1..Len(node.children)}
   ELSE {})

\* the container <div> that holds the <img> elements and nothing else
IsImageContainer(node) ==
  /\ node.tag = "div"
  /\ "imageContainer" \in node.className
  /\ Len(node.children) >= 1
  /\ \A i \in 1..Len(node.children) : node.children[i].tag = "img"

FullWidthClasses == {"db", "w-100", "center"}

(***************************************************************************)
(* C1. ErrorState starts false, and once true it is never false again; in  *)
(* every state where it is true the content is the Placeholder, whatever   *)
(* the props and the product have become.                                  *)
(***************************************************************************)
C1_ErrorLatches ==
  /\ error = FALSE
  /\ [][error => error']_vars
  /\ [](error => IsPlaceholderOnly(Content) /\ Imgs(rendered) = <<>>)

\* after the failure the product and the props changed, and the product has a sku
C1_Witness ==
  /\ error
  /\ HasSku
  /\ product # Product(ClustersOf(1), FullSku)
  /\ props.hoverImageLabel # "" /\ props.width # Undefined

(***************************************************************************)
(* C2. Without a sku (or without a product) the content is the Placeholder *)
(* only: no <img>, no DiscountBadge and no CollectionBadges, for every     *)
(* value of the flags, labels, sizes, device and error state.              *)
(***************************************************************************)
C2_NoSkuPlaceholder ==
  ~HasSku =>
    /\ IsPlaceholderOnly(Content)
    /\ Tags(rendered) = {"div", "ImagePlaceholder"}

C2_Witness ==
  /\ ~HasSku /\ ~error
  /\ props.showBadge /\ props.showCollections /\ Len(Clusters) > 0
  /\ props.width # Undefined /\ props.hoverImageLabel # "" /\ isMobile

(***************************************************************************)
(* C3. With a sku and no error there are two <img> elements exactly when   *)
(* hoverImageLabel is non-empty, some image of sku.images carries it and   *)
(* the device is not mobile; otherwise there is exactly one.               *)
(***************************************************************************)
C3_ImageCount ==
  (HasSku /\ ~error) =>
    Len(Imgs(rendered)) =
      IF props.hoverImageLabel # "" /\ Matches(props.hoverImageLabel) # {} /\ ~isMobile
      THEN 2 ELSE 1

\* the hover image is not the first image of the sku
C3_Witness ==
  /\ HasSku /\ ~error
  /\ Len(Imgs(rendered)) = 2
  /\ 1 \notin Matches(props.hoverImageLabel)

(***************************************************************************)
(* C4. The primary url is the imageUrl of the first image labelled         *)
(* mainImageLabel when no variation is selected, mainImageLabel is         *)
(* non-empty and such an image exists; in every other case it is           *)
(* sku.image.imageUrl.                                                     *)
(***************************************************************************)
C4_PrimaryUrl ==
  (HasSku /\ ~error) =>
    Imgs(rendered)[1].src =
      IF NoVariation /\ props.mainImageLabel # "" /\ Matches(props.mainImageLabel) # {}
      THEN FirstMatch(props.mainImageLabel).imageUrl
      ELSE Path(<<"image", "imageUrl">>, TheSku)

(***************************************************************************)
(* C5. With showBadge, showCollections and at least one cluster (sku       *)
(* present, no error) the DiscountBadge is the outermost element of the    *)
(* content, the CollectionBadges its only child, and the image container   *)
(* the only child of the CollectionBadges.                                 *)
(***************************************************************************)
C5_BadgeOutermost ==
  (HasSku /\ ~error /\ props.showBadge /\ props.showCollections /\ Len(Clusters) > 0) =>
    /\ Content.tag = "DiscountBadge"
    /\ Len(Content.children) = 1
    /\ Content.children[1].tag = "CollectionBadges"
    /\ Len(Content.children[1].children) = 1
    /\ IsImageContainer(Content.children[1].children[1])

C5_Witness ==
  /\ HasSku /\ ~error /\ props.showBadge /\ props.showCollections
  /\ Len(Clusters) = MaxClusters
  /\ Content.tag = "DiscountBadge"

\* the resolved size is `expected`, and every <img> rendered is sized by it
SizeAgrees(expected) ==
  /\ ResolveSize(props.width, props.height) = expected
  /\ (HasSku /\ ~error) =>
       \A i \in 1..Len(Imgs(rendered)) :
         LET img == Imgs(rendered)[i]
         IN IF expected = <<Num(0), Num(0)>>
            THEN img.style = Null /\ img.loading = "auto" /\ img.src.t = "string"
            ELSE /\ img.style # Null
                 /\ img.style.maxWidth = expected[1]
                 /\ img.style.height = expected[2]

C7_OuterClasses ==
  /\ rendered.tag = "div"
  /\ rendered.className \cap FullWidthClasses =
       IF props.displayMode # "inline" THEN FullWidthClasses ELSE {}
  /\ props.displayMode = "normal" => FullWidthClasses \subseteq rendered.className
  /\ props.displayMode = "inline" => rendered.className \cap FullWidthClasses = {}

C7_Witness == props.displayMode = "inline" /\ error /\ ~HasSku

(***************************************************************************)
(* C8. Only the error callback changes ErrorState; the primary and the     *)
(* hover <img> carry the same callback, setError(true); and whichever      *)
(* queued failure is handled, in any order and however many there are,     *)
(* ErrorState is true afterwards and the render that follows is the        *)
(* Placeholder without any <img>.                                          *)
(***************************************************************************)
C8_OnlyErrorCallback ==
  /\ [][error' # error => HandleError]_vars
  /\ [](\A i \in 1..Len(Imgs(rendered)) : Imgs(rendered)[i].onError = SetErrorTrue)
  /\ [][HandleError =>
          error' /\ IsPlaceholderOnly(rendered'.children[1]) /\ Imgs(rendered') = <<>>]_vars

\* the hover image's failure was handled while the primary's is still queued
C8_Witness ==
  /\ error
  /\ queued # {}
  /\ \A e \in queued : e.slot = 1

(***************************************************************************)
(* C9. The discount decorator wraps exactly when showBadge is true,        *)
(* whatever the prices and the label are, and hands them on; the           *)
(* collection decorator wraps exactly when showCollections is true and     *)
(* there is at least one cluster, with the cluster names in cluster        *)
(* order; an element that is not wrapped is left as it is.                 *)
(***************************************************************************)
C9_Decorators ==
  (HasSku /\ ~error) =>
    LET inner == IF props.showBadge THEN Content.children[1] ELSE Content
        collected == props.showCollections /\ Len(Clusters) > 0
        innermost == IF collected THEN inner.children[1] ELSE inner
    IN /\ (Content.tag = "DiscountBadge") = props.showBadge
       /\ props.showBadge =>
            /\ Content.listPrice = Prop(TheOffer, "ListPrice")
            /\ Content.sellingPrice = Prop(TheOffer, "Price")
            /\ Content.label = props.badgeText
            /\ Len(Content.children) = 1
       /\ (inner.tag = "CollectionBadges") = collected
       /\ collected =>
            /\ inner.collectionBadgesText = [i \in 1..Len(Clusters) |-> Clusters[i].name]
            /\ Len(inner.children) = 1
       /\ IsImageContainer(innermost)

\* a badge without a discount around collection badges of several clusters
C9_Witness ==
  /\ HasSku /\ ~error
  /\ props.showBadge /\ props.showCollections
  /\ TheOffer = Offer(10, 10)
  /\ Len(Clusters) >= 2
  /\ Content.tag = "DiscountBadge"

(***************************************************************************)
(* C10. Image resizes exactly when width or height is non-zero; then the   *)
(* source is changeImageUrlSize(src, width * d, height * d) with d = 2 on  *)
(* mobile and 1 otherwise and loading is lazy; otherwise src is used as    *)
(* it is, there is no style and loading is not lazy.                       *)
(***************************************************************************)
C10_ImageResize ==
  imageCall # NoCall =>
    LET c == imageCall
        d == IF c.mobile THEN 2 ELSE 1
    IN IF c.width.v # 0 \/ c.height.v # 0
       THEN /\ c.out.src.t = "resized"
            /\ c.out.src.src = c.src
            /\ c.out.src.width = Num(c.width.v * d)
            /\ c.out.src.height = Num(c.height.v * d)
            /\ c.out.loading = "lazy"
            /\ c.out.style # Null
            /\ c.out.style.maxWidth = c.width /\ c.out.style.height = c.height
       ELSE /\ c.out.src = c.src
            /\ c.out.style = Null
            /\ c.out.loading # "lazy"

\* a resize with one dimension 0, on a mobile device
C10_Witness ==
  /\ imageCall # NoCall
  /\ imageCall.width = Num(0) /\ imageCall.height # Num(0) /\ imageCall.mobile
  /\ imageCall.out.loading = "lazy"

====
